---- MODULE Spec2Model ----
(***************************************************************************)
(* Price Action Strategy Analyzer (src/startegy.py).                       *)
(*                                                                         *)
(* The pipeline is  request -> preprocess_data_from_json -> analyze_data.  *)
(* Prices are integers (ticks; 1000 ticks = 100.0).  Every comparison the  *)
(* code makes on a quotient is made here on the cross-multiplied integers, *)
(* so the arithmetic is exact; thresholds with one decimal (0.7, 3.0, 1.5, *)
(* 0.1) are kept in tenths of a percent.  A ratio that the code stores     *)
(* (body_ratio, width_pct) is a record [num, den] with den > 0.            *)
(***************************************************************************)
EXTENDS Integers, Sequences, FiniteSets, TLC

VARIABLES ohlc_data, df, pc, strategy_suggestion, reason, detected_range

vars == <<ohlc_data, df, pc, strategy_suggestion, reason, detected_range>>

(* ---- RANGE_CONFIG, IMPULSE_CONFIG, trend constants -------------------- *)
min_candles == 15
min_touches == 2
\* 0.7 and 3.0 percent, in tenths of a percent
width_min_pct == 7
width_max_pct == 30
touch_tolerance_pct == 1
midrange_pct == 30
min_candles_consecutive == 2
max_candles_total == 3
\* 1.5 percent, in tenths of a percent
min_total_pct_change == 15
min_body_pct == 60
\* 0.1 percent, in tenths of a percent
TREND_THRESHOLD_PCT == 1
TREND_LOOKBACK == 10

(* ---- bounds of the checked input space -------------------------------- *)
MaxHead == 2
MaxMid == 16
MaxTail == 1

None == [none |-> TRUE]

(* ---- candles ---------------------------------------------------------- *)
CandleDataInput(o, h, l, c) == [open |-> o, high |-> h, low |-> l, close |-> c]

\* touches resistance, closes in the upper band of 990..1010
CandleTop == CandleDataInput(1000, 1010, 995, 1005)
\* touches support, closes at the middle
CandleBottom == CandleDataInput(1005, 1006, 990, 1000)
\* full-bodied 2 percent advance to a new high
CandleThrust == CandleDataInput(1000, 1020, 1000, 1020)
\* sell-off far below the range
CandleDrop == CandleDataInput(1000, 1000, 940, 945)
\* flat candle, range = 0
CandleFlat == CandleDataInput(1000, 1000, 1000, 1000)
\* long wicks: stretches a 990..1010 window to a width just above 3 percent
CandleWide == CandleDataInput(1000, 1012, 981, 1005)

Candles == {CandleTop, CandleBottom, CandleThrust, CandleDrop, CandleFlat, CandleWide}
\* candles of the lead-in before the consolidation
LeadCandles == {CandleThrust, CandleFlat}

SeqsUpTo(S, n) == UNION {[1..m -> S] : m \in 0..n}

Consolidation(m) == [i \in 1..m |-> IF i % 2 = 1 THEN CandleTop ELSE CandleBottom]

\* the candles of a request, stamped in the order of the series
Stamp(s) == [i \in 1..Len(s) |-> [timestamp |-> i, open |-> s[i].open, high |-> s[i].high,
                                  low |-> s[i].low, close |-> s[i].close]]
Reverse(s) == [i \in 1..Len(s) |-> s[Len(s) + 1 - i]]

Series == {h \o Consolidation(m) \o t :
             h \in SeqsUpTo(LeadCandles, MaxHead), m \in 0..MaxMid, t \in SeqsUpTo(Candles, MaxTail)}

\* a request lists the candles oldest first or newest first
Requests == {Stamp(s) : s \in Series} \cup {Reverse(Stamp(s)) : s \in Series}

(* ---- helpers ---------------------------------------------------------- *)
Abs(x) == IF x < 0 THEN -x ELSE x
Sign(x) == IF x > 0 THEN 1 ELSE IF x < 0 THEN -1 ELSE 0

\* a / b as a ratio with positive denominator (b # 0)
Ratio(a, b) == IF b > 0 THEN [num |-> a, den |-> b] ELSE [num |-> -a, den |-> -b]
RatAdd(x, y) == [num |-> x.num * y.den + y.num * x.den, den |-> x.den * y.den]

\* df.iloc[start:stop] with Python's slice rules (0-based, negative from the end, clamped)
iloc(d, start, stop) ==
  LET n == Len(d)
      norm(i) == IF i < 0 THEN (IF n + i < 0 THEN 0 ELSE n + i) ELSE IF i > n THEN n ELSE i
  IN SubSeq(d, norm(start) + 1, norm(stop))

RECURSIVE Insert(_, _)
Insert(row, s) ==
  IF s = <<>> THEN <<row>>
  ELSE IF s[Len(s)].timestamp <= row.timestamp THEN Append(s, row)
  ELSE Append(Insert(row, SubSeq(s, 1, Len(s) - 1)), s[Len(s)])

RECURSIVE sort_index(_)
sort_index(s) ==
  IF s = <<>> THEN <<>> ELSE Insert(s[Len(s)], sort_index(SubSeq(s, 1, Len(s) - 1)))

body_ratio(c) ==
  IF c.high - c.low = 0 THEN [num |-> 0, den |-> 1]
  ELSE Ratio(Abs(c.close - c.open) * 100, c.high - c.low)

preprocess_data_from_json(data) ==
  LET sorted == sort_index(data)
  IN [i \in 1..Len(sorted) |->
        [open |-> sorted[i].open, high |-> sorted[i].high, low |-> sorted[i].low,
         close |-> sorted[i].close, body_ratio |-> body_ratio(sorted[i])]]

\* variant: the bounds of the central band count as entry zone
check_price_near_extreme_inclusive(price, range_low, range_high, midrange) ==
  LET total_range == range_high - range_low
  IN IF total_range <= 0 THEN FALSE
     ELSE \/ 200 * price <= 200 * range_low + total_range * (100 - midrange)
          \/ 200 * price >= 200 * range_high - total_range * (100 - midrange)

check_price_near_extreme(price, range_low, range_high, midrange) ==
  LET total_range == range_high - range_low
  IN IF total_range <= 0 THEN FALSE
     ELSE \/ 200 * price < 200 * range_low + total_range * (100 - midrange)
          \/ 200 * price > 200 * range_high - total_range * (100 - midrange)

Max(S) == CHOOSE x \in S : \A y \in S : y <= x
Min(S) == CHOOSE x \in S : \A y \in S : x <= y

\* variant: the width of the window is not checked
RangeWindow_no_width(d, start_idx) ==
  LET window == iloc(d, start_idx, start_idx + min_candles)
      window_high == Max({window[i].high : i \in 1..Len(window)})
      window_low == Min({window[i].low : i \in 1..Len(window)})
      high_touches == {i \in 1..Len(window) :
                         100 * window[i].high >= window_high * (100 - touch_tolerance_pct)}
      low_touches == {i \in 1..Len(window) :
                         100 * window[i].low <= window_low * (100 + touch_tolerance_pct)}
      width == window_high - window_low
      width_pct == Ratio(200 * width, window_high + window_low)
      last_close == window[Len(window)].close
  IN IF window_high <= window_low THEN None
     ELSE IF ~(Cardinality(high_touches) >= min_touches /\ Cardinality(low_touches) >= min_touches)
       THEN None
     ELSE IF window_high + window_low = 0 THEN None
     ELSE IF ~(window_low * (100 - touch_tolerance_pct) <= 100 * last_close
               /\ 100 * last_close <= window_high * (100 + touch_tolerance_pct)) THEN None
     ELSE [high |-> window_high, low |-> window_low, width_pct |-> width_pct,
           start_index |-> start_idx, end_index |-> start_idx + min_candles - 1]

\* the body of the loop of detect_range for one start offset (0-based):
\* the range it returns, or None when the window is skipped
RangeWindow(d, start_idx) ==
  LET window == iloc(d, start_idx, start_idx + min_candles)
      window_high == Max({window[i].high : i \in 1..Len(window)})
      window_low == Min({window[i].low : i \in 1..Len(window)})
      high_touches == {i \in 1..Len(window) :
                         100 * window[i].high >= window_high * (100 - touch_tolerance_pct)}
      low_touches == {i \in 1..Len(window) :
                         100 * window[i].low <= window_low * (100 + touch_tolerance_pct)}
      width == window_high - window_low
      width_pct == Ratio(200 * width, window_high + window_low)
      last_close == window[Len(window)].close
  IN IF window_high <= window_low THEN None
     ELSE IF ~(Cardinality(high_touches) >= min_touches /\ Cardinality(low_touches) >= min_touches)
       THEN None
     ELSE IF window_high + window_low = 0 THEN None
     ELSE IF ~(width_min_pct * width_pct.den <= 10 * width_pct.num
               /\ 10 * width_pct.num <= width_max_pct * width_pct.den) THEN None
     ELSE IF ~(window_low * (100 - touch_tolerance_pct) <= 100 * last_close
               /\ 100 * last_close <= window_high * (100 + touch_tolerance_pct)) THEN None
     ELSE [high |-> window_high, low |-> window_low, width_pct |-> width_pct,
           start_index |-> start_idx, end_index |-> start_idx + min_candles - 1]

\* variant: the scan walks forward from the oldest window
RECURSIVE RangeScanUp(_, _, _)
RangeScanUp(d, start_idx, last_idx) ==
  IF start_idx > last_idx THEN None
  ELSE IF RangeWindow(d, start_idx) # None THEN RangeWindow(d, start_idx)
  ELSE RangeScanUp(d, start_idx + 1, last_idx)

RangeScan_forward(d, start_idx) == RangeScanUp(d, 0, start_idx)

RECURSIVE RangeScan(_, _)
RangeScan(d, start_idx) ==
  IF start_idx < 0 THEN None
  ELSE IF RangeWindow(d, start_idx) # None THEN RangeWindow(d, start_idx)
  ELSE RangeScan(d, start_idx - 1)

\* variant: no length guard, the scan starts at max(len - min_candles, 0)
detect_range_short_windows(d) ==
  IF Len(d) >= min_candles THEN RangeScan(d, Len(d) - min_candles) ELSE RangeScan(d, 0)

detect_range(d) ==
  IF Len(d) < min_candles THEN None ELSE RangeScan(d, Len(d) - min_candles)

\* the trend as line 130-137 computes it from the two closes
TrendOf(first_close, last_close) ==
  LET price_change == last_close - first_close
  IN IF first_close = 0
       \* float division by zero: +inf, -inf or nan
       THEN (IF price_change > 0 THEN "uptrend"
             ELSE IF price_change < 0 THEN "downtrend" ELSE "none")
     ELSE LET price_change_pct == Ratio(100 * price_change, first_close)
          IN IF 10 * price_change_pct.num > TREND_THRESHOLD_PCT * price_change_pct.den
               THEN "uptrend"
             ELSE IF 10 * price_change_pct.num < -TREND_THRESHOLD_PCT * price_change_pct.den
               THEN "downtrend"
             ELSE "none"

\* variant: the length guard is lookback instead of lookback + 1
detect_trend_and_bos_short(d) ==
  IF Len(d) < TREND_LOOKBACK THEN [trend |-> "none", bos |-> FALSE]
  ELSE LET n == Len(d)
           lookback_data == iloc(d, -TREND_LOOKBACK - 1, -1)
           recent_data == iloc(d, -TREND_LOOKBACK, n)
           trend == TrendOf(lookback_data[1].close, recent_data[Len(recent_data)].close)
           prev_high == Max({lookback_data[i].high : i \in 1..Len(lookback_data)})
           prev_low == Min({lookback_data[i].low : i \in 1..Len(lookback_data)})
       IN [trend |-> trend,
           bos |-> IF trend = "uptrend" THEN d[n].high > prev_high
                   ELSE IF trend = "downtrend" THEN d[n].low < prev_low
                   ELSE FALSE]

detect_trend_and_bos(d) ==
  IF Len(d) < TREND_LOOKBACK + 1 THEN [trend |-> "none", bos |-> FALSE]
  ELSE LET n == Len(d)
           lookback_data == iloc(d, -TREND_LOOKBACK - 1, -1)
           recent_data == iloc(d, -TREND_LOOKBACK, n)
           trend == TrendOf(lookback_data[1].close, recent_data[Len(recent_data)].close)
           prev_high == Max({lookback_data[i].high : i \in 1..Len(lookback_data)})
           prev_low == Min({lookback_data[i].low : i \in 1..Len(lookback_data)})
       IN [trend |-> trend,
           bos |-> IF trend = "uptrend" THEN d[n].high > prev_high
                   ELSE IF trend = "downtrend" THEN d[n].low < prev_low
                   ELSE FALSE]

RECURSIVE RatSum(_)
RatSum(s) == IF s = <<>> THEN [num |-> 0, den |-> 1] ELSE RatAdd(s[1].body_ratio, RatSum(Tail(s)))

\* variant: a window is skipped when its mean body ratio is above the threshold
ImpulseAt_body_flipped(d, num_candles, body_pct, total_pct_change) ==
  IF Len(d) < num_candles THEN FALSE
  ELSE LET subset == iloc(d, -num_candles, Len(d))
           start_price == subset[1].open
           end_price == subset[Len(subset)].close
           body_sum == RatSum(subset)
           direction == Sign(end_price - start_price)
       IN IF start_price = 0 THEN FALSE
          ELSE IF 1000 * Abs(end_price - start_price) < total_pct_change * Abs(start_price)
            THEN FALSE
          ELSE IF body_sum.num > body_pct * num_candles * body_sum.den THEN FALSE
          ELSE \A i \in 1..Len(subset) : (subset[i].close - subset[i].open) * direction >= 0

\* variant: a flat candle breaks the direction consistency
ImpulseAt_strict_direction(d, num_candles, body_pct, total_pct_change) ==
  IF Len(d) < num_candles THEN FALSE
  ELSE LET subset == iloc(d, -num_candles, Len(d))
           start_price == subset[1].open
           end_price == subset[Len(subset)].close
           body_sum == RatSum(subset)
           direction == Sign(end_price - start_price)
       IN IF start_price = 0 THEN FALSE
          ELSE IF 1000 * Abs(end_price - start_price) < total_pct_change * Abs(start_price)
            THEN FALSE
          ELSE IF body_sum.num < body_pct * num_candles * body_sum.den THEN FALSE
          ELSE \A i \in 1..Len(subset) : (subset[i].close - subset[i].open) * direction > 0

\* one iteration of the loop of check_recent_impulse: TRUE when it returns True
ImpulseAt(d, num_candles, body_pct, total_pct_change) ==
  IF Len(d) < num_candles THEN FALSE
  ELSE LET subset == iloc(d, -num_candles, Len(d))
           start_price == subset[1].open
           end_price == subset[Len(subset)].close
           body_sum == RatSum(subset)
           direction == Sign(end_price - start_price)
       IN IF start_price = 0 THEN FALSE
          ELSE IF 1000 * Abs(end_price - start_price) < total_pct_change * Abs(start_price)
            THEN FALSE
          ELSE IF body_sum.num < body_pct * num_candles * body_sum.den THEN FALSE
          ELSE \A i \in 1..Len(subset) : (subset[i].close - subset[i].open) * direction >= 0

RECURSIVE ImpulseLoop(_, _, _, _)
ImpulseLoop(d, num_candles, body_pct, total_pct_change) ==
  IF num_candles > max_candles_total THEN FALSE
  ELSE IF ImpulseAt(d, num_candles, body_pct, total_pct_change) THEN TRUE
  ELSE ImpulseLoop(d, num_candles + 1, body_pct, total_pct_change)

\* check_recent_impulse under a given IMPULSE_CONFIG (thresholds: percent, tenths of a percent)
check_recent_impulse_cfg(d, body_pct, total_pct_change) ==
  ImpulseLoop(d, min_candles_consecutive, body_pct, total_pct_change)

check_recent_impulse(d) == check_recent_impulse_cfg(d, min_body_pct, min_total_pct_change)

\* step 1 of analyze_data returns "Limit Catch Entry"
LimitCatch(d, rng) ==
  /\ rng # None
  /\ check_price_near_extreme(d[Len(d)].close, rng.low, rng.high, midrange_pct)
  /\ ~check_recent_impulse(iloc(d, 0, rng.start_index))

\* variant: the In-Price conditions are tried before the Limit Catch conditions
analyze_data_trend_first(d) ==
  LET rng == detect_range(d)
      range_details == IF rng # None THEN <<[text |-> "Range detected"]>> ELSE <<>>
      tb == detect_trend_and_bos(d)
      current_impulse == check_recent_impulse(d)
      trend_details == <<[text |-> "Trend", trend |-> tb.trend, bos |-> tb.bos,
                          impulse |-> current_impulse]>>
  IN IF tb.trend # "none" /\ tb.bos /\ ~current_impulse
       THEN [label |-> "In-Price Entry",
             reason |-> range_details \o trend_details
                          \o <<[text |-> "Trend with BoS and no current impulse"]>>]
     ELSE IF LimitCatch(d, rng)
       THEN [label |-> "Limit Catch Entry",
             reason |-> range_details \o <<[text |-> "Price in entry zone with no prior impulse"]>>]
     ELSE [label |-> "No Entry", reason |-> range_details \o trend_details]

\* variant: step 2 does not look at the current impulse
analyze_data_ignores_impulse(d) ==
  LET rng == detect_range(d)
      range_details == IF rng # None THEN <<[text |-> "Range detected"]>> ELSE <<>>
      tb == detect_trend_and_bos(d)
      current_impulse == check_recent_impulse(d)
      trend_details == <<[text |-> "Trend", trend |-> tb.trend, bos |-> tb.bos,
                          impulse |-> current_impulse]>>
  IN IF LimitCatch(d, rng)
       THEN [label |-> "Limit Catch Entry",
             reason |-> range_details \o <<[text |-> "Price in entry zone with no prior impulse"]>>]
     ELSE IF tb.trend # "none" /\ tb.bos
       THEN [label |-> "In-Price Entry",
             reason |-> range_details \o trend_details
                          \o <<[text |-> "Trend with BoS and no current impulse"]>>]
     ELSE [label |-> "No Entry", reason |-> range_details \o trend_details]

analyze_data(d) ==
  LET rng == detect_range(d)
      range_details == IF rng # None THEN <<[text |-> "Range detected"]>> ELSE <<>>
      tb == detect_trend_and_bos(d)
      current_impulse == check_recent_impulse(d)
      trend_details == <<[text |-> "Trend", trend |-> tb.trend, bos |-> tb.bos,
                          impulse |-> current_impulse]>>
  IN IF LimitCatch(d, rng)
       THEN [label |-> "Limit Catch Entry",
             reason |-> range_details \o <<[text |-> "Price in entry zone with no prior impulse"]>>]
     ELSE IF tb.trend # "none" /\ tb.bos /\ ~current_impulse
       THEN [label |-> "In-Price Entry",
             reason |-> range_details \o trend_details
                          \o <<[text |-> "Trend with BoS and no current impulse"]>>]
     ELSE [label |-> "No Entry", reason |-> range_details \o trend_details]

(* ---- the state machine ------------------------------------------------ *)
\* A caller holds a list of candles and calls preprocess_data_from_json, then
\* analyze_data on the frame it returns.  The functions take a list of any
\* length; the HTTP schema's min_items is transport and is not applied here.
Init ==
  /\ ohlc_data \in Requests
  /\ df = <<>>
  /\ pc = "request"
  /\ strategy_suggestion = "none"
  /\ reason = <<>>
  /\ detected_range = None

\* preprocess_data_from_json; an empty list has no timestamp column and raises ValueError
Preprocess ==
  /\ pc = "request"
  /\ IF ohlc_data = <<>>
       THEN /\ pc' = "ValueError"
            /\ df' = df
       ELSE /\ pc' = "preprocessed"
            /\ df' = preprocess_data_from_json(ohlc_data)
  /\ UNCHANGED <<ohlc_data, strategy_suggestion, reason, detected_range>>

Analyze ==
  /\ pc = "preprocessed"
  /\ pc' = "analyzed"
  /\ detected_range' = detect_range(df)
  /\ strategy_suggestion' = analyze_data(df).label
  /\ reason' = analyze_data(df).reason
  /\ UNCHANGED <<ohlc_data, df>>

Next == Preprocess \/ Analyze

Spec == Init /\ [][Next]_vars

(* ======================================================================= *)
(* Properties                                                              *)
(* ======================================================================= *)
Analyzed == pc = "analyzed"
LatestClose == df[Len(df)].close
PreRange == iloc(df, 0, detected_range.start_index)

\* the three Limit Catch conditions, on the range analyze_data detected
LimitCatchConditions ==
  /\ detected_range # None
  /\ check_price_near_extreme(LatestClose, detected_range.low, detected_range.high, midrange_pct)
  /\ ~check_recent_impulse(PreRange)

\* the three In-Price conditions, on the full series
InPriceConditions ==
  /\ detect_trend_and_bos(df).trend # "none"
  /\ detect_trend_and_bos(df).bos
  /\ ~check_recent_impulse(df)

\* C1: when the Limit Catch conditions hold the label is "Limit Catch Entry",
\* also when the In-Price conditions hold at the same time.
C1_LimitCatchFirst ==
  (Analyzed /\ LimitCatchConditions) => strategy_suggestion = "Limit Catch Entry"

C1_Witness ==
  /\ Analyzed /\ LimitCatchConditions /\ InPriceConditions
  /\ strategy_suggestion = "Limit Catch Entry"

\* C2: a non-empty series shorter than 15 candles has no range and is never
\* labelled "Limit Catch Entry".
C2_ShortSeriesNoRange ==
  (Analyzed /\ Len(df) < 15) =>
     /\ detected_range = None
     /\ detect_range(df) = None
     /\ strategy_suggestion # "Limit Catch Entry"

C2_Witness ==
  /\ Analyzed /\ Len(df) = 14 /\ detected_range = None
  /\ check_price_near_extreme(LatestClose, 990, 1010, midrange_pct)
  /\ strategy_suggestion = "No Entry"

\* C3: a returned window has high > low and a width, as a percentage of the
\* midpoint, between 0.7 and 3.0.
C3_WidthInBounds ==
  (Analyzed /\ detected_range # None) =>
     LET h == detected_range.high
         l == detected_range.low
     IN /\ h > l
        /\ h + l > 0
        /\ detected_range.width_pct.num * (h + l) = 200 * (h - l) * detected_range.width_pct.den
        /\ 7 * (h + l) <= 2000 * (h - l)
        /\ 2000 * (h - l) <= 30 * (h + l)

\* a range is returned although a more recent window fails on its width alone
C3_Witness ==
  /\ Analyzed /\ detected_range # None
  /\ detected_range.end_index < Len(df) - 1
  /\ RangeWindow_no_width(df, Len(df) - min_candles) # None

\* thresholds tried for the impulse detector: body percent, total change in tenths of a percent
BodyThresholds == {40, 60, 70, 100}
ChangeThresholds == {10, 15, 20, 25}
\* the series analyze_data can give to the impulse detector: the full series and
\* the candles before each possible start of a window
ImpulseInputs ==
  {df} \cup {iloc(df, 0, start_idx) : start_idx \in 0..(Len(df) - min_candles)}

\* C4: check_recent_impulse is monotone: no impulse under some thresholds means
\* no impulse under thresholds that are greater or equal in both components
\* (stated from the greater pair: an impulse there is an impulse under every lesser pair).
C4_ImpulseMonotone ==
  Analyzed =>
    \A d \in ImpulseInputs : \A hi \in BodyThresholds \X ChangeThresholds :
      check_recent_impulse_cfg(d, hi[1], hi[2]) =>
        \A lo \in BodyThresholds \X ChangeThresholds :
          (lo[1] <= hi[1] /\ lo[2] <= hi[2]) => check_recent_impulse_cfg(d, lo[1], lo[2])

\* an impulse at the configured thresholds that vanishes when either one is raised
C4_Witness ==
  /\ Analyzed
  /\ check_recent_impulse_cfg(df, min_body_pct, min_total_pct_change)
  /\ ~check_recent_impulse_cfg(df, 70, min_total_pct_change)
  /\ ~check_recent_impulse_cfg(df, min_body_pct, 25)
  /\ check_recent_impulse_cfg(df, 40, 10)

Labels == {"Limit Catch Entry", "In-Price Entry", "No Entry"}

\* C5: when step 1 does not return, the label is "In-Price Entry" exactly when
\* the trend is not none, the structure is broken and the full series has no
\* impulse, and "No Entry" otherwise; the label is one of the three values.
C5_StepTwo ==
  Analyzed =>
    /\ strategy_suggestion \in Labels
    /\ ~LimitCatchConditions =>
         /\ strategy_suggestion = "In-Price Entry" <=> InPriceConditions
         /\ strategy_suggestion = "No Entry" <=> ~InPriceConditions

\* a broken structure in a trend that is refused because of the current impulse
C5_Witness ==
  /\ Analyzed /\ ~LimitCatchConditions
  /\ detect_trend_and_bos(df).trend = "uptrend" /\ detect_trend_and_bos(df).bos
  /\ check_recent_impulse(df)
  /\ strategy_suggestion = "No Entry"

\* C6: fewer than 11 candles give trend none and no break of structure, and a
\* break of structure is reported only with an uptrend or a downtrend.
C6_TrendGuard ==
  Analyzed =>
    /\ Len(df) < 11 => detect_trend_and_bos(df) = [trend |-> "none", bos |-> FALSE]
    /\ detect_trend_and_bos(df).bos => detect_trend_and_bos(df).trend \in {"uptrend", "downtrend"}
    /\ \A i \in 1..Len(reason) :
         reason[i].text = "Trend" =>
           /\ Len(df) < 11 => (reason[i].trend = "none" /\ ~reason[i].bos)
           /\ reason[i].bos => reason[i].trend \in {"uptrend", "downtrend"}

\* ten candles whose closes rise by more than 0.1 percent to a new high
C6_Witness ==
  /\ Analyzed /\ Len(df) = 10
  /\ 1000 * (df[10].close - df[1].close) > df[1].close
  /\ \A i \in 1..9 : df[10].high > df[i].high
  /\ reason = <<[text |-> "Trend", trend |-> "none", bos |-> FALSE, impulse |-> FALSE]>>

\* the five conditions of a qualifying window of 15 candles at 0-based offset s
Qualifies(s) ==
  LET idx == (s + 1)..(s + 15)
      h == Max({df[i].high : i \in idx})
      l == Min({df[i].low : i \in idx})
  IN /\ h > l
     /\ Cardinality({i \in idx : 100 * (h - df[i].high) <= h}) >= 2
     /\ Cardinality({i \in idx : 100 * (df[i].low - l) <= l}) >= 2
     /\ 7 * (h + l) <= 2000 * (h - l) /\ 2000 * (h - l) <= 30 * (h + l)
     /\ 99 * l <= 100 * df[s + 15].close /\ 100 * df[s + 15].close <= 101 * h

\* C7: the returned window is the qualifying window of 15 candles with the
\* greatest start offset; no range is returned only if no offset qualifies.
C7_MostRecentWindow ==
  Analyzed =>
    IF detected_range # None
      THEN LET s == detected_range.start_index
           IN /\ s >= 0
              /\ detected_range.end_index = s + 15 - 1
              /\ detected_range.end_index <= Len(df) - 1
              /\ Qualifies(s)
              /\ detected_range.high = Max({df[i].high : i \in (s + 1)..(s + 15)})
              /\ detected_range.low = Min({df[i].low : i \in (s + 1)..(s + 15)})
              /\ \A later \in (s + 1)..(Len(df) - 15) : ~Qualifies(later)
      ELSE \A s \in 0..(Len(df) - 15) : ~Qualifies(s)

\* an older window qualifies too, and the most recent one is returned
C7_Witness ==
  /\ Analyzed /\ detected_range # None
  /\ detected_range.start_index > 0
  /\ detected_range.end_index = Len(df) - 1
  /\ Qualifies(0)

\* prices around the detected range, bounds of the central band among them
ProbePrices == (detected_range.low - 2)..(detected_range.high + 2)

\* C8: the entry zone is the complement of the central band of midrange_pct of
\* the width around the midpoint, bounds of the band excluded from the zone;
\* a width <= 0 has no entry zone.
C8_EntryZone ==
  (Analyzed /\ detected_range # None) =>
     LET h == detected_range.high
         l == detected_range.low
     IN \A price \in ProbePrices :
          /\ check_price_near_extreme(price, l, h, midrange_pct)
               <=> 100 * Abs(2 * price - (l + h)) > 30 * (h - l)
          /\ ~check_price_near_extreme(price, h, l, midrange_pct)
          /\ ~check_price_near_extreme(price, l, l, midrange_pct)

\* the latest close is in the zone and a bound of the central band is a probed price
C8_Witness ==
  /\ Analyzed /\ detected_range # None
  /\ check_price_near_extreme(LatestClose, detected_range.low, detected_range.high, midrange_pct)
  /\ \E price \in ProbePrices :
       /\ 100 * Abs(2 * price - (detected_range.low + detected_range.high))
            = 30 * (detected_range.high - detected_range.low)
       /\ ~check_price_near_extreme(price, detected_range.low, detected_range.high, midrange_pct)

RECURSIVE Product(_)
Product(s) == IF s = <<>> THEN 1 ELSE s[1] * Product(Tail(s))
RECURSIVE Sum(_)
Sum(s) == IF s = <<>> THEN 0 ELSE s[1] + Sum(Tail(s))

\* the trailing n candles of d are an impulse: the conditions of the loop body,
\* on the raw OHLC values (candle ranges are >= 0; a zero range counts as ratio 0)
TrailingImpulse(d, n) ==
  LET w == [i \in 1..n |-> d[Len(d) - n + i]]
      net == w[n].close - w[1].open
      rng == [i \in 1..n |-> IF w[i].high = w[i].low THEN 1 ELSE w[i].high - w[i].low]
      all == Product(rng)
      body == [i \in 1..n |-> IF w[i].high = w[i].low THEN 0
                              ELSE 100 * Abs(w[i].close - w[i].open) * (all \div rng[i])]
  IN /\ w[1].open # 0
     /\ 1000 * Abs(net) >= 15 * w[1].open
     /\ Sum(body) >= 60 * n * all
     /\ \A i \in 1..n : \/ w[i].close = w[i].open
                        \/ Sign(w[i].close - w[i].open) = Sign(net)

\* C9: check_recent_impulse is true exactly when some trailing run of 2 or 3
\* candles moves at least 1.5 percent with mean body ratio at least 60 and no
\* candle against the move; false for fewer than 2 candles.
C9_ImpulseExactly ==
  Analyzed =>
    \A d \in ImpulseInputs :
      /\ check_recent_impulse(d) <=> \E n \in 2..3 : n <= Len(d) /\ TrailingImpulse(d, n)
      /\ Len(d) < 2 => ~check_recent_impulse(d)

\* an impulse of three candles with a flat candle, which the last two alone do not make
C9_Witness ==
  /\ Analyzed /\ Len(df) >= 3
  /\ check_recent_impulse(df)
  /\ ~TrailingImpulse(df, 2) /\ TrailingImpulse(df, 3)
  /\ \E i \in (Len(df) - 2)..Len(df) : df[i].close = df[i].open

\* C10: whenever the label is "Limit Catch Entry" the latest close lies within
\* the detected range widened by the touch tolerance.
C10_LatestCloseInsideRange ==
  (Analyzed /\ strategy_suggestion = "Limit Catch Entry") =>
     /\ detected_range # None
     /\ 99 * detected_range.low <= 100 * LatestClose
     /\ 100 * LatestClose <= 101 * detected_range.high

====
